---------------------------- MODULE Spec2Model ----------------------------
(***************************************************************************)
(* HomeManagement: the smsInbound webhook (tenant SMS intake), its ticket  *)
(* resolver, message log, follow-up heuristic, landlord notifier and reply *)
(* composer, and the two triageMessage variants.                           *)
(*                                                                         *)
(* Values.  A JavaScript value is a record [t, v]: t is its type tag and v *)
(* a sequence of strings.  A string's v is the sequence of its pieces (an  *)
(* inbound body or phone is one piece per character, so Len is .length);   *)
(* a boolean's v is <<"true">> or <<"false">>.                             *)
(***************************************************************************)
EXTENDS Integers, Sequences, FiniteSets, TLC

\* ------------------------------------------------------------------ values
Undef == [t |-> "undef", v |-> <<>>]
Null == [t |-> "null", v |-> <<>>]
Str(s) == [t |-> "str", v |-> s]
Lit(s) == [t |-> "str", v |-> <<s>>]
JTrue == [t |-> "bool", v |-> <<"true">>]
JFalse == [t |-> "bool", v |-> <<"false">>]
Bool(b) == IF b THEN JTrue ELSE JFalse
Num(s) == [t |-> "num", v |-> <<s>>]

\* JavaScript truthiness: undefined, null, "", false, 0 are falsy.
Truthy(x) ==
    CASE x.t = "undef" -> FALSE
      [] x.t = "null" -> FALSE
      [] x.t = "str" -> x.v # <<>>
      [] x.t = "bool" -> x.v = <<"true">>
      [] x.t = "num" -> x.v # <<"0">>
      [] OTHER -> TRUE

\* a || b
Or(a, b) == IF Truthy(a) THEN a ELSE b

\* ----------------------------------------------------------------- strings
IsSpace(c) == c \in {" ", "\t", "\n"}

RECURSIVE TrimStart(_)
TrimStart(s) ==
    IF s # <<>> /\ IsSpace(Head(s)) THEN TrimStart(Tail(s)) ELSE s

RECURSIVE TrimEnd(_)
TrimEnd(s) ==
    IF s # <<>> /\ IsSpace(s[Len(s)]) THEN TrimEnd(SubSeq(s, 1, Len(s) - 1)) ELSE s

\* String.prototype.trim on a sequence of characters
Trim(s) == TrimEnd(TrimStart(s))

\* the field taken as it comes, without .trim()
OptTrimNone(x) == x

\* x?.trim(): undefined stays undefined
OptTrim(x) == IF x.t = "str" THEN Str(Trim(x.v)) ELSE Undef

UpperChars == <<"A","B","C","D","E","F","G","H","I","J","K","L","M",
                "N","O","P","Q","R","S","T","U","V","W","X","Y","Z">>
LowerChars == <<"a","b","c","d","e","f","g","h","i","j","k","l","m",
                "n","o","p","q","r","s","t","u","v","w","x","y","z">>

LowerChar(c) ==
    IF \E i \in 1..Len(UpperChars) : UpperChars[i] = c
    THEN LowerChars[CHOOSE i \in 1..Len(UpperChars) : UpperChars[i] = c]
    ELSE c

ToLower(s) == [i \in 1..Len(s) |-> LowerChar(s[i])]

\* s has kw as a substring
Contains(s, kw) ==
    \E i \in 1..(Len(s) - Len(kw) + 1) : SubSeq(s, i, i + Len(kw) - 1) = kw


\* -------------------------------------------------- follow-up heuristic
\* the alternatives of the regular expression, in its order
Keywords ==
    <<<<"k","i","t","c","h","e","n">>,
      <<"b","a","t","h","r","o","o","m">>,
      <<"b","a","t","h">>,
      <<"l","i","v","i","n","g"," ","r","o","o","m">>,
      <<"l","i","v","i","n","g","r","o","o","m">>,
      <<"b","e","d","r","o","o","m">>,
      <<"h","a","l","l","w","a","y">>,
      <<"c","e","i","l","i","n","g">>,
      <<"u","n","d","e","r"," ","t","h","e"," ","s","i","n","k">>,
      <<"u","n","d","e","r"," ","s","i","n","k">>>>

\* /kitchen|bathroom|...|under sink/i.test(body)
KeywordTest(body) ==
    \E k \in 1..Len(Keywords) : Contains(ToLower(body), Keywords[k])

ShortThreshold == 40

\* the length test with <= for <
isShortFollowupInclusive(body) ==
    Len(body) <= ShortThreshold /\ KeywordTest(body)

\* const isShortFollowup = body.length < 40 && /.../i.test(body)
isShortFollowup(body) ==
    Len(body) < ShortThreshold /\ KeywordTest(body)

\* ------------------------------------------------------- triage classifier
(***************************************************************************)
(* The language model's reply.  `content` is what                          *)
(* completion.choices[0]?.message?.content evaluates to: Undef, Null, or a *)
(* string.  A content string is [t |-> "text", pad, doc, val]: pad says    *)
(* whether white space surrounds the text, doc is "empty" (no text),       *)
(* "garbage" (text that is no JSON) or "json", and val is the JSON value   *)
(* that text denotes.  A JSON value is [t, v, f]: a tagged value and, for  *)
(* an object, its fields f (an absent field is Undef).                     *)
(***************************************************************************)
FieldNames ==
    {"issueType", "emergency", "riskLevel", "needsClarification",
     "clarificationQuestion", "missingFields"}

NoFields == [n \in FieldNames |-> Undef]

JVal(x) == [t |-> x.t, v |-> x.v, f |-> NoFields]
JObj(fields) == [t |-> "obj", v |-> <<>>, f |-> fields]
JArr == [t |-> "arr", v |-> <<>>, f |-> NoFields]

NoContent(x) == [t |-> x.t, pad |-> FALSE, doc |-> "none", val |-> JVal(Null)]
Text(pad, doc, val) == [t |-> "text", pad |-> pad, doc |-> doc, val |-> val]

\* content?.trim(): the surrounding white space goes
ContentTrim(c) == IF c.t = "text" THEN [c EXCEPT !.pad = FALSE] ELSE NoContent(Undef)

\* a content string is truthy unless it is ""
ContentTruthy(c) == c.t = "text" /\ (c.pad \/ c.doc # "empty")

\* x || "{}"
OrEmptyObject(c) == IF ContentTruthy(c) THEN c ELSE Text(FALSE, "json", JObj(NoFields))

\* JSON.parse(raw): JSON text may be surrounded by white space; white space
\* alone, the empty string and anything that is no JSON text throw SyntaxError.
JSONParse(raw) ==
    IF raw.doc = "json"
    THEN [threw |-> FALSE, val |-> raw.val]
    ELSE [threw |-> TRUE, val |-> JVal(Null)]

\* parsed.name throws TypeError on null; a primitive or an array has no such
\* property.
GetThrows(parsed) == parsed.t \in {"null", "undef"}
Get(parsed, name) == IF parsed.t = "obj" THEN parsed.f[name] ELSE Undef

\* The nested object: missingFields is Undef, Null, or [t |-> "obj", v |-> flags]
\* where flags lists the sub-fields that are true.
MissingFlag(mf, name) ==
    mf.t = "obj" /\ \E i \in 1..Len(mf.v) : mf.v[i] = name

NoMissingFields ==
    [locationDetails |-> FALSE, accessWindow |-> FALSE,
     severityDetails |-> FALSE, applianceOrFixture |-> FALSE]

Returned(r) == [threw |-> FALSE, val |-> r]
Thrown == [threw |-> TRUE,
           val |-> [issueType |-> Undef, emergency |-> Undef, riskLevel |-> Undef,
                    needsClarification |-> Undef, clarificationQuestion |-> Undef,
                    missingFields |-> NoMissingFields]]

\* the catch branch of the JSON.parse of the current triage.ts
ParseFallback ==
    [issueType |-> Lit("general"), emergency |-> JFalse, riskLevel |-> Lit("low"),
     needsClarification |-> JFalse, clarificationQuestion |-> Null,
     missingFields |-> NoMissingFields]

\* the defensive defaults of the current triage.ts
DefensiveResult(parsed) ==
    [issueType |->
        IF Get(parsed, "issueType") \in {Lit("plumbing"), Lit("hvac"), Lit("appliance")}
        THEN Get(parsed, "issueType") ELSE Lit("general"),
     emergency |-> Bool(Truthy(Get(parsed, "emergency"))),
     riskLevel |->
        IF Get(parsed, "riskLevel") \in {Lit("medium"), Lit("high")}
        THEN Get(parsed, "riskLevel") ELSE Lit("low"),
     needsClarification |-> Bool(Truthy(Get(parsed, "needsClarification"))),
     clarificationQuestion |->
        IF Get(parsed, "clarificationQuestion").t = "str"
        THEN Get(parsed, "clarificationQuestion") ELSE Null,
     missingFields |->
        [n \in DOMAIN NoMissingFields |-> MissingFlag(Get(parsed, "missingFields"), n)]]

\* triageMessage without the try/catch around JSON.parse
triageMessageNoCatch(content) ==
    LET raw == OrEmptyObject(ContentTrim(content))
        p == JSONParse(raw)
    IN  IF p.threw \/ GetThrows(p.val) THEN Thrown
        ELSE Returned(DefensiveResult(p.val))

\* triageMessage(message, apiKey) of the current triage.ts, from the reply on
triageMessage(content) ==
    LET raw == OrEmptyObject(ContentTrim(content))
        p == JSONParse(raw)
    IN  IF p.threw THEN Returned(ParseFallback)
        ELSE IF GetThrows(p.val) THEN Thrown
        ELSE Returned(DefensiveResult(p.val))

\* the catch branch of the earlier triage.ts
ParseFallbackV1 ==
    [issueType |-> Lit("general"), emergency |-> JFalse, riskLevel |-> Undef,
     needsClarification |-> JTrue,
     clarificationQuestion |->
        Lit("Can you send a photo and a short description of what's going on?"),
     missingFields |-> NoMissingFields]

\* triageMessage(messageText) of the earlier triage.ts, from the reply on
triageMessageV1(content) ==
    LET raw == OrEmptyObject(content)
        p == JSONParse(raw)
    IN  IF p.threw THEN Returned(ParseFallbackV1)
        ELSE IF GetThrows(p.val) THEN Thrown
        ELSE Returned(
            [issueType |-> Or(Get(p.val, "issueType"), Lit("general")),
             emergency |-> Bool(Truthy(Get(p.val, "emergency"))),
             riskLevel |-> Undef,
             needsClarification |-> Bool(Truthy(Get(p.val, "needsClarification"))),
             clarificationQuestion |-> Or(Get(p.val, "clarificationQuestion"), Undef),
             missingFields |-> NoMissingFields])

\* ---------------------------------------------------------- document store
(***************************************************************************)
(* The tenants and landlords collections are written by another system and *)
(* only read here.  A document id is a string.                             *)
(***************************************************************************)
PhoneA == <<"5","5","5","1">>
PhoneB == <<"5","5","5","2">>
PhoneC == <<"5","5","5","3">>
PhoneD == <<"5","5","5","4">>
PhoneU == <<"5","5","5","9">>

NoTenant ==
    [id |-> "", phone |-> <<>>, landlordId |-> Undef, unitId |-> Undef,
     name |-> Undef, fullName |-> Undef, firstName |-> Undef, displayName |-> Undef]

\* the tenants collection, in document order
Tenants ==
    << [NoTenant EXCEPT !.id = "tA", !.phone = PhoneA, !.landlordId = Lit("L1"),
                        !.unitId = Lit("4B"), !.fullName = Lit("Ann Lee")],
       [NoTenant EXCEPT !.id = "tB", !.phone = PhoneB],
       [NoTenant EXCEPT !.id = "tC", !.phone = PhoneC, !.landlordId = Lit("L2"),
                        !.name = Lit("Cy")],
       [NoTenant EXCEPT !.id = "tD", !.phone = PhoneD, !.landlordId = Lit("L3"),
                        !.firstName = Lit("Di")] >>

TenantIds == {Tenants[i].id : i \in 1..Len(Tenants)}

\* the landlords collection: L1 has a phone on file, L2 has none, L3 is no document
Landlords ==
    [L1 |-> [phone |-> Lit("+15550100")],
     L2 |-> [phone |-> Undef]]

\* tenant.name || tenant.fullName || tenant.firstName || tenant.displayName || ""
resolveTenantName(tenant) ==
    Or(tenant.name, Or(tenant.fullName, Or(tenant.firstName,
       Or(tenant.displayName, Str(<<>>)))))

\* the query without its where clause: the first tenant, whatever the phone
findTenantByPhoneAny(phone) == 1

\* db.collection("tenants").where("phone", "==", phone).limit(1).get(): the
\* index of the first matching document, 0 when the snapshot is empty
findTenantByPhone(phone) ==
    IF \E i \in 1..Len(Tenants) : Tenants[i].phone = phone
    THEN CHOOSE i \in 1..Len(Tenants) :
            /\ Tenants[i].phone = phone
            /\ \A j \in 1..(i - 1) : Tenants[j].phone # phone
    ELSE 0

\* a lookup that finds a landlord with a phone whatever the id
getLandlordByIdAlways(id) == [exists |-> TRUE, phone |-> Lit("+15550100")]

\* db.collection("landlords").doc(id).get(): doc.exists ? {id, ...data} : null
getLandlordById(id) ==
    IF id \in DOMAIN Landlords
    THEN [exists |-> TRUE, phone |-> Landlords[id].phone]
    ELSE [exists |-> FALSE, phone |-> Undef]

\* the document without `|| null`: an absent reference stays undefined
NewTicketNoNull(tenant, at) ==
    [tenantId |-> tenant.id,
     landlordId |-> tenant.landlordId,
     unitId |-> tenant.unitId,
     status |-> "open",
     issueType |-> Null,
     emergencyFlag |-> FALSE,
     pendingClarification |-> FALSE,
     pendingClarificationField |-> Null,
     locationDescription |-> Null,
     lastMessage |-> Undef,
     createdAt |-> at]

\* the document a ticket is created with; createdAt is the creation's place in
\* the order of the server's timestamps
NewTicket(tenant, at) ==
    [tenantId |-> tenant.id,
     landlordId |-> Or(tenant.landlordId, Null),
     unitId |-> Or(tenant.unitId, Null),
     status |-> "open",
     issueType |-> Null,
     emergencyFlag |-> FALSE,
     pendingClarification |-> FALSE,
     pendingClarificationField |-> Null,
     locationDescription |-> Null,
     lastMessage |-> Undef,
     createdAt |-> at]

NoTicket == [id |-> 0, data |-> NewTicket(NoTenant, 0)]

\* the status test turned round
IsReusableInverted(status) == status = "completed" \/ status = "closed"

\* data.status !== "completed" && data.status !== "closed"
IsReusable(status) == status # "completed" /\ status # "closed"

\* ------------------------------------------------------------------ bounds
\* requests handled at the same time
NumSlots == 2
\* requests received in one behaviour when they are handled one at a time
MaxStarts == 2
\* requests received in one behaviour when they overlap
MaxOverlapStarts == 3
\* requests started in a behaviour of two racing requests
MaxRaceStarts == 2
\* external calls that fail in one behaviour
MaxFailures == 1
\* status changes made by other actors in one behaviour
MaxExternal == 1

Reqs == 1..NumSlots

\* ------------------------------------------------------------------ inputs
Blank == <<" ", " ">>
BodyLeak == <<"l","e","a","k">>
\* 7 characters once trimmed, matches /kitchen/i
BodyKitchen == <<" ","K","i","t","c","h","e","n"," ">>
\* exactly ShortThreshold characters, matches /kitchen/i
BodyLong == <<"k","i","t","c","h","e","n">> \o [i \in 1..(ShortThreshold - 7) |-> "x"]

Post(From, Body) == [method |-> "POST", From |-> From, Body |-> Body]

\* the requests the webhook receives
Inbound ==
    { [method |-> "GET", From |-> Str(PhoneA), Body |-> Str(BodyLeak)],
      Post(Undef, Str(BodyLeak)),
      Post(Str(Blank), Str(BodyLeak)),
      Post(Str(PhoneA), Undef),
      Post(Str(PhoneA), Str(Blank)),
      Post(Str(PhoneU), Str(BodyKitchen)),
      Post(Str(<<" ">> \o PhoneA), Str(BodyKitchen)),
      Post(Str(PhoneA), Str(BodyLeak)),
      Post(Str(PhoneA), Str(BodyLong)),
      Post(Str(PhoneB), Str(BodyLeak)),
      Post(Str(PhoneC), Str(BodyKitchen)),
      Post(Str(PhoneD), Str(BodyLeak)) }

Triaged(issueType, emergency, needsClarification, question) ==
    Text(TRUE, "json",
         JObj([NoFields EXCEPT !["issueType"] = issueType,
                               !["emergency"] = emergency,
                               !["needsClarification"] = needsClarification,
                               !["clarificationQuestion"] = question]))

\* the requests of the overlapping behaviours: one tenant's, and an unknown
\* sender's
InboundOverlap ==
    { Post(Str(PhoneA), Str(BodyLeak)),
      Post(Str(PhoneA), Str(BodyKitchen)),
      Post(Str(PhoneU), Str(BodyLeak)) }

\* the replies the language model gives within the webhook
ModelReplies ==
    { Text(FALSE, "garbage", JVal(Null)),
      Text(FALSE, "json", JVal(Null)),
      Triaged(Lit("plumbing"), JTrue, JFalse, Null),
      Triaged(Lit("plumbing"), JTrue, JTrue, Lit("Where is the leak?")),
      Triaged(Lit("hvac"), JFalse, JTrue, Str(<<>>)) }

\* the reply of the overlapping behaviours
OverlapReplies == { Triaged(Lit("plumbing"), JTrue, JFalse, Null) }

AllSecrets == [sid |-> Lit("AC1"), token |-> Lit("tok"), from |-> Lit("+15550000")]

\* the secrets of a deployment: all set, or one of them empty
SecretSets ==
    { AllSecrets,
      [sid |-> Str(<<>>), token |-> Lit("tok"), from |-> Lit("+15550000")],
      [sid |-> Lit("AC1"), token |-> Str(<<>>), from |-> Lit("+15550000")],
      [sid |-> Lit("AC1"), token |-> Lit("tok"), from |-> Str(<<>>)] }

\* ------------------------------------------------------------------- state
VARIABLES
    tickets,          \* the tickets collection: ticket id i is tickets[i]
    ticketMessages,   \* the ticketMessages collection, in order of creation
    unknownMessages,  \* the unknownMessages collection, in order of creation
    secrets,          \* TWILIO_ACCOUNT_SID, TWILIO_AUTH_TOKEN, TWILIO_FROM_NUMBER
    twilioClient,     \* the module's lazily built client: Null, or its credentials
    twilioFrom,       \* the module's from-number: Null or a string
    reqs,             \* each slot's running request: its locals and its effects
    started,          \* history: requests received so far
    failures,         \* history: external calls that failed so far
    external,         \* history: status changes by other actors so far
    overlap,          \* history: tenants two of whose requests ran at once
    solo,             \* history: slots whose request has run beside no other
    origin,           \* history: per ticket, how many tickets its creator's query saw
    tIn,              \* the pure triage check: the model reply under test
    tOut              \* the pure triage check: both variants' results

vars ==
    <<tickets, ticketMessages, unknownMessages, secrets, twilioClient, twilioFrom,
      reqs, started, failures, external, overlap, solo, origin, tIn, tOut>>

store == <<tickets, ticketMessages, unknownMessages>>
twilio == <<twilioClient, twilioFrom>>
history == <<started, failures, external, overlap, solo, origin>>
pure == <<tIn, tOut>>

NoTriage ==
    [issueType |-> Undef, emergency |-> Undef,
     needsClarification |-> Undef, clarificationQuestion |-> Undef]

\* a slot with no request
Idle ==
    [pc |-> "idle", method |-> "", From |-> Undef, Body |-> Undef,
     from |-> Undef, body |-> Undef,
     tenant |-> 0, ticket |-> NoTicket, phase |-> "",
     triage |-> NoTriage, smsBody |-> <<>>, replyText |-> <<>>,
     responses |-> <<>>,
     \* history of the request
     reads |-> 0, writes |-> 0, classifierCalls |-> 0, sms |-> <<>>,
     failed |-> <<>>, created |-> 0, queried |-> FALSE, ticketsAtQuery |-> 0,
     latestAtQuery |-> 0, openAtQuery |-> {}, shortcut |-> FALSE, triaged |-> FALSE,
     \* the places in ticketMessages of the records the request added
     logged |-> <<>>]

InitWith(secretSets) ==
    /\ tickets = <<>>
    /\ ticketMessages = <<>>
    /\ unknownMessages = <<>>
    /\ secrets \in secretSets
    /\ twilioClient = Null
    /\ twilioFrom = Null
    /\ reqs = [r \in Reqs |-> Idle]
    /\ started = 0
    /\ failures = 0
    /\ external = 0
    /\ overlap = {}
    /\ solo = {}
    /\ origin = <<>>
    /\ tIn = NoContent(Undef)
    /\ tOut = <<>>

Init == InitWith(SecretSets)

\* ---------------------------------------------------------------- replies
XmlOpen == "<Response><Message>"
XmlClose == "</Message></Response>"

\* `<Response><Message>${text}</Message></Response>`
Twiml(text) == <<XmlOpen>> \o text \o <<XmlClose>>

EmptyReply == <<"We received an empty message.">>
UnknownReply ==
    <<"We don't recognize this number yet. Please reply with your full name and unit address so we can connect you.">>
\* the superseded handler's error text
ErrorReplyOld == <<"We ran into an error on our side, but we received your message.">>

ErrorReply == <<"We had an error but received your message.">>

\* res.status(405).send("Method Not Allowed"); return
Reject(q) ==
    [q EXCEPT !.pc = "done",
              !.responses = Append(@, [status |-> 405, contentType |-> "",
                                       body |-> <<"Method Not Allowed">>])]

\* res.set("Content-Type", "text/xml"); res.status(200).send(...); return
Respond(q, text) ==
    [q EXCEPT !.pc = "done",
              !.responses = Append(@, [status |-> 200, contentType |-> "text/xml",
                                       body |-> Twiml(text)])]

\* the outer catch answering with a server error
CatchAllStatus500(q) ==
    [q EXCEPT !.pc = "done",
              !.responses = Append(@, [status |-> 500, contentType |-> "text/xml",
                                       body |-> Twiml(ErrorReply)])]

\* the handler's outer catch
CatchAll(q) == Respond(q, ErrorReply)

\* triage.issueType && triage.issueType !== "general" ? triage.issueType : "issue"
issueLabel(issueType) ==
    IF Truthy(issueType) /\ issueType # Lit("general") THEN issueType ELSE Lit("issue")

FollowupReply(tenant, ticket) ==
    <<"Thanks ">> \o Or(resolveTenantName(tenant), Str(<<>>)).v
    \o <<", I've added that detail to your ">> \o issueLabel(ticket.data.issueType).v
    \o <<" ticket. I'll coordinate with your landlord and keep you updated.">>

NeedsQuestion(triage) ==
    Truthy(triage.needsClarification) /\ Truthy(triage.clarificationQuestion)

\* the reply with the emergency test before the clarification test
TriageReplyUrgentFirst(tenant, triage) ==
    LET thanks == <<"Thanks ">> \o Or(resolveTenantName(tenant), Str(<<>>)).v
        label == issueLabel(triage.issueType).v
    IN  IF Truthy(triage.emergency)
        THEN thanks \o <<", I've logged this as an urgent ">> \o label
             \o <<" and alerted your landlord immediately. If there's any immediate danger to health or safety, please contact emergency services as well.">>
        ELSE IF NeedsQuestion(triage)
        THEN thanks \o <<", I've logged this as a ">> \o label \o <<". ">>
             \o triage.clarificationQuestion.v
        ELSE thanks \o <<", I've logged this as a ">> \o label
             \o <<". I'll coordinate with your landlord and keep you updated.">>

\* 7) Build tenant reply
TriageReply(tenant, triage) ==
    LET thanks == <<"Thanks ">> \o Or(resolveTenantName(tenant), Str(<<>>)).v
        label == issueLabel(triage.issueType).v
    IN  IF NeedsQuestion(triage)
        THEN thanks \o <<", I've logged this as a ">> \o label \o <<". ">>
             \o triage.clarificationQuestion.v
        ELSE IF Truthy(triage.emergency)
        THEN thanks \o <<", I've logged this as an urgent ">> \o label
             \o <<" and alerted your landlord immediately. If there's any immediate danger to health or safety, please contact emergency services as well.">>
        ELSE thanks \o <<", I've logged this as a ">> \o label
             \o <<". I'll coordinate with your landlord and keep you updated.">>

\* ------------------------------------------------------------ the handler
Active(q) == q.pc \notin {"idle", "done"}

\* A response that has gone out is taken off its slot before anything else
\* happens: the finished request plays no further part.
NoneDone == \A r \in Reqs : reqs[r].pc # "done"

\* the document with the inbound body in the outbound record as well
MessageOfInboundBody(q) ==
    IF q.phase = "in"
    THEN [ticketId |-> q.ticket.id, senderType |-> "tenant",
          body |-> q.body.v, direction |-> "inbound"]
    ELSE [ticketId |-> q.ticket.id, senderType |-> "system",
          body |-> q.body.v, direction |-> "outbound"]

\* the ticketMessages document addTicketMessage adds in this phase
MessageOf(q) ==
    IF q.phase = "in"
    THEN [ticketId |-> q.ticket.id, senderType |-> "tenant",
          body |-> q.body.v, direction |-> "inbound"]
    ELSE [ticketId |-> q.ticket.id, senderType |-> "system",
          body |-> q.replyText, direction |-> "outbound"]

\* 8) save the outbound message, from the reply text on
LogOutbound(q, text) == [q EXCEPT !.replyText = text, !.phase = "out", !.pc = "msgAdd"]

\* what follows an addTicketMessage call, whether it returned or threw into
\* its caller's catch: 3.5) the follow-up heuristic after the inbound message,
\* 9) the response after the outbound one
AfterLog(q) ==
    IF q.phase = "in"
    THEN IF Truthy(q.ticket.data.issueType) /\ isShortFollowup(q.body.v)
         THEN [LogOutbound(q, FollowupReply(Tenants[q.tenant], q.ticket))
                  EXCEPT !.shortcut = TRUE]
         ELSE [q EXCEPT !.pc = "classify"]
    ELSE Respond(q, q.replyText)

\* the handler's TriageResult type: the four fields it reads
Handled(res) ==
    [issueType |-> res.issueType, emergency |-> res.emergency,
     needsClarification |-> res.needsClarification,
     clarificationQuestion |-> res.clarificationQuestion]

\* the earlier triage.ts default used as the handler's: it asks for a photo
HandlerFallbackAsk ==
    [issueType |-> Lit("general"), emergency |-> JFalse,
     needsClarification |-> JTrue,
     clarificationQuestion |->
        Lit("Can you send a photo and a short description of what's going on?")]

\* the handler's own default when triageMessage throws
HandlerFallback ==
    [issueType |-> Lit("general"), emergency |-> JFalse,
     needsClarification |-> JFalse, clarificationQuestion |-> Null]

\* the update that also sets the ticket's status to "open"
ticketUpdateReopening(ticket, triage) ==
    [ticket EXCEPT !.issueType = triage.issueType,
                   !.emergencyFlag = Truthy(triage.emergency),
                   !.pendingClarification = NeedsQuestion(triage),
                   !.pendingClarificationField =
                        IF NeedsQuestion(triage) THEN Lit("location") ELSE Null,
                   !.status = "open"]

\* 5) the fields the ticket update writes
ticketUpdate(ticket, triage) ==
    [ticket EXCEPT !.issueType = triage.issueType,
                   !.emergencyFlag = Truthy(triage.emergency),
                   !.pendingClarification = NeedsQuestion(triage),
                   !.pendingClarificationField =
                        IF NeedsQuestion(triage) THEN Lit("location") ELSE Null]

\* initTwilioOnce() that builds the client and forgets twilioFrom
initTwilioOnceNoFrom(client, from, sec) ==
    IF Truthy(client) THEN <<client, from>>
    ELSE IF ~Truthy(sec.sid) \/ ~Truthy(sec.token) \/ ~Truthy(sec.from)
    THEN <<client, from>>
    ELSE <<[t |-> "obj", v |-> sec.sid.v \o sec.token.v], from>>

\* initTwilioOnce(): the module's <<twilioClient, twilioFrom>> after the call
initTwilioOnce(client, from, sec) ==
    IF Truthy(client) THEN <<client, from>>
    ELSE IF ~Truthy(sec.sid) \/ ~Truthy(sec.token) \/ ~Truthy(sec.from)
    THEN <<client, from>>
    ELSE <<[t |-> "obj", v |-> sec.sid.v \o sec.token.v], sec.from>>

SmsLimit == 140
SmsKeep == 137

\* body.length > 140 ? body.slice(0, 137) + "..." : body
shortBody(body) ==
    IF Len(body) > SmsLimit THEN SubSeq(body, 1, SmsKeep) \o <<"...">> ELSE body

TicketIdText(id) == "tk" \o ToString(id)

\* the landlord SMS text
smsBody(tenant, ticket, triage, body) ==
    <<IF Truthy(triage.emergency) THEN "[EMERGENCY] " ELSE "", "New issue from ">>
    \o Or(resolveTenantName(tenant), Lit("tenant")).v
    \o <<" (Unit ">> \o Or(tenant.unitId, Lit("?")).v
    \o <<")\nTicket: ", TicketIdText(ticket.id), "\nType: ">> \o triage.issueType.v
    \o <<"\nEmergency: ", IF Truthy(triage.emergency) THEN "YES" ELSE "No",
         "\nMessage: \"">> \o shortBody(body) \o <<"\"">>

\* the query ordered by createdAt ascending: the tenant's oldest ticket
OldestTicket(tenantId) ==
    LET mine == {i \in 1..Len(tickets) : tickets[i].tenantId = tenantId}
    IN  IF mine = {} THEN 0
        ELSE CHOOSE i \in mine : \A j \in mine : tickets[i].createdAt <= tickets[j].createdAt

\* the tenant's latest ticket by createdAt: 0 when the snapshot is empty
LatestTicket(tenantId) ==
    LET mine == {i \in 1..Len(tickets) : tickets[i].tenantId = tenantId}
    IN  IF mine = {} THEN 0
        ELSE CHOOSE i \in mine : \A j \in mine : tickets[j].createdAt <= tickets[i].createdAt

\* the request arrives; everything up to the first await
Receive(r, inp) ==
    /\ NoneDone
    /\ reqs[r].pc = "idle"
    /\ \A o \in Reqs : o < r => reqs[o].pc # "idle"
    /\ started' = started + 1
    /\ LET q == [Idle EXCEPT !.method = inp.method, !.From = inp.From, !.Body = inp.Body,
                             !.from = OptTrim(inp.From), !.body = OptTrim(inp.Body)]
           t == findTenantByPhone(q.from.v)
       IN  /\ reqs' = [reqs EXCEPT ![r] =
                IF q.method # "POST" THEN Reject(q)
                ELSE IF ~Truthy(q.from) \/ ~Truthy(q.body) THEN Respond(q, EmptyReply)
                ELSE [q EXCEPT !.pc = "findTenant"]]
           /\ overlap' =
                IF /\ Active(reqs'[r])
                   /\ t # 0
                   /\ \E o \in Reqs \ {r} : Active(reqs[o]) /\ reqs[o].from = q.from
                THEN overlap \cup {Tenants[t].id}
                ELSE overlap
    /\ solo' = IF \A o \in Reqs \ {r} : reqs[o].pc = "idle" THEN {r} ELSE {}
    /\ UNCHANGED <<store, secrets, twilio, failures, external, origin, pure>>

\* 1) const tenant = await findTenantByPhone(from)
FindTenant(r) ==
    /\ NoneDone
    /\ reqs[r].pc = "findTenant"
    /\ LET q == [reqs[r] EXCEPT !.reads = @ + 1]
           t == findTenantByPhone(q.from.v)
       IN  reqs' = [reqs EXCEPT ![r] =
                IF t = 0 THEN [q EXCEPT !.pc = "addUnknown"]
                ELSE [q EXCEPT !.tenant = t, !.pc = "queryTicket"]]
    /\ UNCHANGED <<store, secrets, twilio, history, pure>>

\* await db.collection("unknownMessages").add({from, body, createdAt}), and the reply
AddUnknown(r) ==
    /\ NoneDone
    /\ reqs[r].pc = "addUnknown"
    /\ unknownMessages' = Append(unknownMessages,
                                 [from |-> reqs[r].from.v, body |-> reqs[r].body.v])
    /\ reqs' = [reqs EXCEPT ![r] = Respond([reqs[r] EXCEPT !.writes = @ + 1], UnknownReply)]
    /\ UNCHANGED <<tickets, ticketMessages, secrets, twilio, history, pure>>

\* getOrCreateOpenTicketForTenant: the query for the latest ticket and the test
\* of its status
QueryTicket(r) ==
    /\ NoneDone
    /\ reqs[r].pc = "queryTicket"
    /\ LET tid == Tenants[reqs[r].tenant].id
           latest == LatestTicket(tid)
           q == [reqs[r] EXCEPT
                    !.reads = @ + 1, !.queried = TRUE,
                    !.ticketsAtQuery = Len(tickets), !.latestAtQuery = latest,
                    !.openAtQuery = {i \in 1..Len(tickets) :
                                        /\ tickets[i].tenantId = tid
                                        /\ tickets[i].status \notin {"completed", "closed"}}]
       IN  reqs' = [reqs EXCEPT ![r] =
                IF latest # 0 /\ IsReusable(tickets[latest].status)
                THEN [q EXCEPT !.ticket = [id |-> latest, data |-> tickets[latest]],
                               !.phase = "in", !.pc = "msgAdd"]
                ELSE [q EXCEPT !.pc = "createTicket"]]
    /\ UNCHANGED <<store, secrets, twilio, history, pure>>

\* getOrCreateOpenTicketForTenant: await db.collection("tickets").add({...})
CreateTicket(r) ==
    /\ NoneDone
    /\ reqs[r].pc = "createTicket"
    /\ tickets' = Append(tickets, NewTicket(Tenants[reqs[r].tenant], Len(tickets) + 1))
    /\ origin' = Append(origin, reqs[r].ticketsAtQuery)
    /\ reqs' = [reqs EXCEPT ![r] =
            [reqs[r] EXCEPT !.writes = @ + 1, !.created = Len(tickets) + 1,
                            !.pc = "getTicket"]]
    /\ UNCHANGED <<ticketMessages, unknownMessages, secrets, twilio,
                   started, failures, external, overlap, solo, pure>>

\* getOrCreateOpenTicketForTenant: const snap2 = await ref.get(), and the return
GetTicket(r) ==
    /\ NoneDone
    /\ reqs[r].pc = "getTicket"
    /\ reqs' = [reqs EXCEPT ![r] =
            [reqs[r] EXCEPT !.reads = @ + 1,
                            !.ticket = [id |-> reqs[r].created,
                                        data |-> tickets[reqs[r].created]],
                            !.phase = "in", !.pc = "msgAdd"]]
    /\ UNCHANGED <<store, secrets, twilio, history, pure>>

\* addTicketMessage: await db.collection("ticketMessages").add({...})
AddMessage(r) ==
    /\ NoneDone
    /\ reqs[r].pc = "msgAdd"
    /\ ticketMessages' = Append(ticketMessages, MessageOf(reqs[r]))
    /\ reqs' = [reqs EXCEPT ![r] =
            [reqs[r] EXCEPT !.writes = @ + 1, !.pc = "msgUpd",
                            !.logged = Append(@, Len(ticketMessages) + 1)]]
    /\ UNCHANGED <<tickets, unknownMessages, secrets, twilio, history, pure>>

\* addTicketMessage: await db.collection("tickets").doc(ticketId).update({...}),
\* and the caller up to its next await
UpdateLastMessage(r) ==
    /\ NoneDone
    /\ reqs[r].pc = "msgUpd"
    /\ tickets' = [tickets EXCEPT ![reqs[r].ticket.id].lastMessage =
                        Str(MessageOf(reqs[r]).body)]
    /\ reqs' = [reqs EXCEPT ![r] = AfterLog([reqs[r] EXCEPT !.writes = @ + 1])]
    /\ UNCHANGED <<ticketMessages, unknownMessages, secrets, twilio, history, pure>>

\* addTicketMessage called outside any try: its throw reaches the outer catch
LogFailsUncaught(r) ==
    /\ NoneDone
    /\ reqs[r].pc \in {"msgAdd", "msgUpd"}
    /\ failures < MaxFailures
    /\ failures' = failures + 1
    /\ reqs' = [reqs EXCEPT ![r] =
            CatchAll([reqs[r] EXCEPT !.writes = @ + 1,
                                     !.failed = Append(@, reqs[r].pc \o reqs[r].phase)])]
    /\ UNCHANGED <<store, secrets, twilio, started, external, overlap, solo, origin, pure>>

\* either await of addTicketMessage throws: the caller's catch logs it and goes on
LogFails(r) ==
    /\ NoneDone
    /\ reqs[r].pc \in {"msgAdd", "msgUpd"}
    /\ failures < MaxFailures
    /\ failures' = failures + 1
    /\ reqs' = [reqs EXCEPT ![r] =
            AfterLog([reqs[r] EXCEPT !.writes = @ + 1,
                                     !.failed = Append(@, reqs[r].pc \o reqs[r].phase)])]
    /\ UNCHANGED <<store, secrets, twilio, started, external, overlap, solo, origin, pure>>

\* 4) triage = await triageMessage(body, key), caught when it throws
Classify(r, content) ==
    /\ NoneDone
    /\ reqs[r].pc = "classify"
    /\ LET res == triageMessage(content)
       IN  reqs' = [reqs EXCEPT ![r] =
                [reqs[r] EXCEPT !.classifierCalls = @ + 1,
                                !.triage = IF res.threw THEN HandlerFallback
                                           ELSE Handled(res.val),
                                !.pc = "updateTriage"]]
    /\ UNCHANGED <<store, secrets, twilio, history, pure>>

\* 4) the language-model call itself fails: the same catch
ClassifierFails(r) ==
    /\ NoneDone
    /\ reqs[r].pc = "classify"
    /\ failures < MaxFailures
    /\ failures' = failures + 1
    /\ reqs' = [reqs EXCEPT ![r] =
            [reqs[r] EXCEPT !.classifierCalls = @ + 1,
                            !.triage = HandlerFallback,
                            !.failed = Append(@, "classify"),
                            !.pc = "updateTriage"]]
    /\ UNCHANGED <<store, secrets, twilio, started, external, overlap, solo, origin, pure>>

\* 5) await db.collection("tickets").doc(ticket.id).update(ticketUpdate), and
\* 6) the test of tenant.landlordId
UpdateTriage(r) ==
    /\ NoneDone
    /\ reqs[r].pc = "updateTriage"
    /\ tickets' = [tickets EXCEPT ![reqs[r].ticket.id] = ticketUpdate(@, reqs[r].triage)]
    /\ LET q == [reqs[r] EXCEPT !.writes = @ + 1, !.triaged = TRUE]
       IN  reqs' = [reqs EXCEPT ![r] =
                IF Truthy(Tenants[q.tenant].landlordId)
                THEN [q EXCEPT !.pc = "getLandlord"]
                ELSE LogOutbound(q, TriageReply(Tenants[q.tenant], q.triage))]
    /\ UNCHANGED <<ticketMessages, unknownMessages, secrets, twilio, history, pure>>

\* 6) const landlord = await getLandlordById(tenant.landlordId), initTwilioOnce()
\* and the text of the SMS
GetLandlord(r) ==
    /\ NoneDone
    /\ reqs[r].pc = "getLandlord"
    /\ LET q == [reqs[r] EXCEPT !.reads = @ + 1]
           tenant == Tenants[q.tenant]
           landlord == getLandlordById(tenant.landlordId.v[1])
           tw == IF landlord.exists /\ Truthy(landlord.phone)
                 THEN initTwilioOnce(twilioClient, twilioFrom, secrets)
                 ELSE <<twilioClient, twilioFrom>>
       IN  /\ twilioClient' = tw[1]
           /\ twilioFrom' = tw[2]
           /\ reqs' = [reqs EXCEPT ![r] =
                IF landlord.exists /\ Truthy(landlord.phone) /\ Truthy(tw[1]) /\ Truthy(tw[2])
                THEN [q EXCEPT !.smsBody = smsBody(tenant, q.ticket, q.triage, q.body.v),
                               !.pc = "sendSms"]
                ELSE LogOutbound(q, TriageReply(tenant, q.triage))]
    /\ UNCHANGED <<store, secrets, history, pure>>

\* the twilioClient.messages.create call of this request
SmsOf(q, delivered) ==
    [from |-> twilioFrom,
     to |-> getLandlordById(Tenants[q.tenant].landlordId.v[1]).phone,
     body |-> q.smsBody, delivered |-> delivered]

\* 6) await twilioClient.messages.create({from, to, body})
SendSms(r) ==
    /\ NoneDone
    /\ reqs[r].pc = "sendSms"
    /\ reqs' = [reqs EXCEPT ![r] =
            LogOutbound([reqs[r] EXCEPT !.sms = Append(@, SmsOf(reqs[r], TRUE))],
                        TriageReply(Tenants[reqs[r].tenant], reqs[r].triage))]
    /\ UNCHANGED <<store, secrets, twilio, history, pure>>

\* the send outside any try: its throw reaches the outer catch
SmsFailsUncaught(r) ==
    /\ NoneDone
    /\ reqs[r].pc = "sendSms"
    /\ failures < MaxFailures
    /\ failures' = failures + 1
    /\ reqs' = [reqs EXCEPT ![r] =
            CatchAll([reqs[r] EXCEPT !.sms = Append(@, SmsOf(reqs[r], FALSE)),
                                     !.failed = Append(@, "sendSms")])]
    /\ UNCHANGED <<store, secrets, twilio, started, external, overlap, solo, origin, pure>>

\* 6) the send throws: caught and logged
SmsFails(r) ==
    /\ NoneDone
    /\ reqs[r].pc = "sendSms"
    /\ failures < MaxFailures
    /\ failures' = failures + 1
    /\ reqs' = [reqs EXCEPT ![r] =
            LogOutbound([reqs[r] EXCEPT !.sms = Append(@, SmsOf(reqs[r], FALSE)),
                                        !.failed = Append(@, "sendSms")],
                        TriageReply(Tenants[reqs[r].tenant], reqs[r].triage))]
    /\ UNCHANGED <<store, secrets, twilio, started, external, overlap, solo, origin, pure>>

StoreReads == {"findTenant", "queryTicket", "getTicket", "getLandlord"}
StoreWrites == {"addUnknown", "createTicket", "updateTriage"}

\* a store call outside any inner try throws: the handler's outer catch replies
StoreFails(r) ==
    /\ NoneDone
    /\ reqs[r].pc \in StoreReads \cup StoreWrites
    /\ failures < MaxFailures
    /\ failures' = failures + 1
    /\ reqs' = [reqs EXCEPT ![r] =
            CatchAll([reqs[r] EXCEPT
                        !.reads = IF reqs[r].pc \in StoreReads THEN @ + 1 ELSE @,
                        !.writes = IF reqs[r].pc \in StoreWrites THEN @ + 1 ELSE @,
                        !.failed = Append(@, reqs[r].pc)])]
    /\ UNCHANGED <<store, secrets, twilio, started, external, overlap, solo, origin, pure>>

\* the response has gone out: the slot is free for the next request
Finish(r) ==
    /\ reqs[r].pc = "done"
    /\ reqs' = [reqs EXCEPT ![r] = Idle]
    /\ solo' = solo \ {r}
    /\ UNCHANGED <<store, secrets, twilio, started, failures, external, overlap,
                   origin, pure>>

\* another actor (a landlord's dashboard) completes or closes a ticket
ExternalStatus(i, s) ==
    /\ NoneDone
    /\ i \in 1..Len(tickets)
    /\ external < MaxExternal
    /\ tickets[i].status \notin {"completed", "closed"}
    /\ tickets' = [tickets EXCEPT ![i].status = s]
    /\ external' = external + 1
    /\ UNCHANGED <<ticketMessages, unknownMessages, secrets, twilio, reqs,
                   started, failures, overlap, solo, origin, pure>>

\* the steps of the running requests
Step ==
    \/ \E r \in Reqs : FindTenant(r)
    \/ \E r \in Reqs : AddUnknown(r)
    \/ \E r \in Reqs : QueryTicket(r)
    \/ \E r \in Reqs : CreateTicket(r)
    \/ \E r \in Reqs : GetTicket(r)
    \/ \E r \in Reqs : AddMessage(r)
    \/ \E r \in Reqs : UpdateLastMessage(r)
    \/ \E r \in Reqs : UpdateTriage(r)
    \/ \E r \in Reqs : GetLandlord(r)
    \/ \E r \in Reqs : SendSms(r)
    \/ \E i \in 1..Len(tickets), s \in {"completed", "closed"} : ExternalStatus(i, s)

\* an external call fails
Fault ==
    \/ \E r \in Reqs : LogFails(r)
    \/ \E r \in Reqs : ClassifierFails(r)
    \/ \E r \in Reqs : SmsFails(r)
    \/ \E r \in Reqs : StoreFails(r)

\* Requests handled one at a time: every request, every reply of the language
\* model, every set of secrets, and external calls that fail.
ReceiveAlone(r, inp) ==
    /\ \A o \in Reqs : reqs[o].pc = "idle"
    /\ started < MaxStarts
    /\ Receive(r, inp)

Next ==
    \/ \E r \in Reqs : Finish(r)
    \/ \E r \in Reqs, inp \in Inbound : ReceiveAlone(r, inp)
    \/ \E r \in Reqs, c \in ModelReplies : Classify(r, c)
    \/ Step
    \/ Fault

Spec == Init /\ [][Next]_vars

\* Requests that overlap, interleaved at each await: the requests of one
\* tenant and of an unknown sender, with all secrets set and no failing call.
InitOverlap == InitWith({AllSecrets})

ReceiveOverlap(r, inp) ==
    /\ started < MaxOverlapStarts
    /\ Receive(r, inp)

NextOverlap ==
    \/ \E r \in Reqs : Finish(r)
    \/ \E r \in Reqs, inp \in InboundOverlap : ReceiveOverlap(r, inp)
    \/ \E r \in Reqs, c \in OverlapReplies : Classify(r, c)
    \/ Step

Overlap == InitOverlap /\ [][NextOverlap]_vars

\* Two requests that overlap and get different replies from the language
\* model, with all secrets set and no failing call.
InboundRace ==
    { Post(Str(PhoneA), Str(BodyLeak)),
      Post(Str(PhoneU), Str(BodyLeak)) }

RaceReplies ==
    { Triaged(Lit("plumbing"), JTrue, JFalse, Null),
      Triaged(Lit("hvac"), JFalse, JTrue, Lit("Where is the unit?")) }

ReceiveRace(r, inp) ==
    /\ started < MaxRaceStarts
    /\ Receive(r, inp)

NextRace ==
    \/ \E r \in Reqs : Finish(r)
    \/ \E r \in Reqs, inp \in InboundRace : ReceiveRace(r, inp)
    \/ \E r \in Reqs, c \in RaceReplies : Classify(r, c)
    \/ Step

Race == InitOverlap /\ [][NextRace]_vars


\* ------------------------------------------------- triageMessage on its own
\* the objects the model's text denotes: each field absent, well typed, or
\* of another type
JsonObjects ==
    { JObj([issueType |-> it, emergency |-> em, riskLevel |-> rl,
            needsClarification |-> nc, clarificationQuestion |-> cq,
            missingFields |-> mf]) :
        it \in {Undef, Lit("plumbing"), Lit("electrical"), Str(<<>>), Num("5")},
        em \in {Undef, JTrue, JFalse, Lit("yes"), Num("0"), Null},
        rl \in {Undef, Lit("high"), Lit("extreme")},
        nc \in {Undef, JTrue, JFalse, Lit("no")},
        cq \in {Undef, Null, Str(<<>>), Lit("Where?"), Num("7")},
        mf \in {Undef, Null, [t |-> "obj", v |-> <<"locationDetails">>]} }

\* the JSON values the model's text denotes
JsonValues ==
    {JVal(Null), JVal(Num("42")), JVal(Lit("plumbing")), JVal(JTrue), JArr}
    \cup JsonObjects

\* what completion.choices[0]?.message?.content can be
Contents ==
    {NoContent(Undef), NoContent(Null)}
    \cup {Text(pad, doc, JVal(Null)) : pad \in BOOLEAN, doc \in {"empty", "garbage"}}
    \cup {Text(pad, "json", val) : pad \in BOOLEAN, val \in JsonValues}

\* before the reply: tIn is undefined, which is also what a reply without
\* content gives
InitTriage == InitWith({AllSecrets})

\* the model replies
ModelAnswers ==
    /\ tOut = <<>>
    /\ tIn = NoContent(Undef)
    /\ tIn' \in Contents \ {NoContent(Undef)}
    /\ UNCHANGED <<store, secrets, twilio, reqs, history, tOut>>

\* both variants of triageMessage handle the reply
Triage ==
    /\ tOut = <<>>
    /\ tOut' = <<triageMessage(tIn), triageMessageV1(tIn)>>
    /\ UNCHANGED <<store, secrets, twilio, reqs, history, tIn>>

NextTriage ==
    \/ ModelAnswers
    \/ Triage

TriageSpec == InitTriage /\ [][NextTriage]_vars


\* ------------------------------------------------------------------ claims
\* the request in slot r made a step
Stepped(r) == reqs'[r] # reqs[r]

\* a missing field, or one with nothing but white space in it
IsEmptyField(x) == x.t # "str" \/ \A i \in 1..Len(x.v) : IsSpace(x.v[i])

\* the response is HTTP 200, text/xml, <Response><Message>text</Message></Response>
IsTwiml(resp, text) ==
    /\ resp.status = 200
    /\ resp.contentType = "text/xml"
    /\ resp.body = <<"<Response><Message>">> \o text \o <<"</Message></Response>">>

\* some step of the request in slot r
RequestStep(r) ==
    \/ FindTenant(r) \/ AddUnknown(r) \/ QueryTicket(r) \/ CreateTicket(r)
    \/ GetTicket(r) \/ AddMessage(r) \/ UpdateLastMessage(r)
    \/ (\E c \in ModelReplies : Classify(r, c))
    \/ UpdateTriage(r) \/ GetLandlord(r) \/ SendSms(r)

\* C1: a POST request has sent no response while it runs and can always take
\* its next step; once it has ended it has sent exactly one response, with
\* status 200, Content-Type text/xml and a body
\* <Response><Message>text</Message></Response>, on every path, the paths on
\* which an external call failed included.
C1_OneTwimlResponse ==
    \A r \in Reqs :
        LET q == reqs[r]
        IN  q.method = "POST" =>
                /\ Active(q) => q.responses = <<>> /\ ENABLED RequestStep(r)
                /\ q.pc = "done" =>
                        /\ Len(q.responses) = 1
                        /\ \E text \in {EmptyReply, UnknownReply, ErrorReply, q.replyText} :
                                text # <<>> /\ IsTwiml(q.responses[1], text)

\* a request has ended in the outer catch after a store call failed
C1_Witness ==
    \E r \in Reqs :
        /\ reqs[r].pc = "done"
        /\ reqs[r].method = "POST"
        /\ reqs[r].failed = <<"updateTriage">>
        /\ IsTwiml(reqs[r].responses[1], ErrorReply)

\* C2: a POST request whose From or Body is missing or empty once trimmed is
\* answered with the fixed empty-message reply and status 200, and makes no
\* store read, no store write, no classifier call and no SMS send.
C2_EmptyInput ==
    \A r \in Reqs :
        LET q == reqs[r]
        IN  q.method = "POST" /\ (IsEmptyField(q.From) \/ IsEmptyField(q.Body)) =>
                /\ q.pc = "done"
                /\ Len(q.responses) = 1
                /\ IsTwiml(q.responses[1], <<"We received an empty message.">>)
                /\ q.reads = 0 /\ q.writes = 0 /\ q.classifierCalls = 0 /\ q.sms = <<>>

\* a request whose From is white space only has been answered
C2_Witness ==
    \E r \in Reqs :
        /\ reqs[r].method = "POST"
        /\ reqs[r].From = Str(Blank)
        /\ ~IsEmptyField(reqs[r].Body)
        /\ reqs[r].pc = "done"

\* the sender's phone, once trimmed, is the phone of no tenant
UnknownSender(q) ==
    /\ q.method = "POST"
    /\ ~IsEmptyField(q.From)
    /\ ~IsEmptyField(q.Body)
    /\ \A i \in 1..Len(Tenants) : Tenants[i].phone # Trim(q.From.v)

\* C3: a request from a phone that matches no tenant appends exactly one entry,
\* holding the phone and the body, to unknownMessages (when that write does not
\* fail), is answered with the canned onboarding reply, and neither creates nor
\* modifies a ticket or a ticketMessages record.
C3_UnknownSender ==
    /\ [](\A r \in Reqs :
            LET q == reqs[r]
            IN  UnknownSender(q) =>
                    /\ q.ticket.id = 0 /\ q.created = 0
                    /\ q.pc = "done" /\ q.failed = <<>> =>
                            /\ q.writes = 1
                            /\ unknownMessages # <<>>
                            /\ unknownMessages[Len(unknownMessages)] =
                                    [from |-> Trim(q.From.v), body |-> Trim(q.Body.v)]
                            /\ Len(q.responses) = 1
                            /\ IsTwiml(q.responses[1], <<"We don't recognize this number yet. Please reply with your full name and unit address so we can connect you.">>))
    /\ [][\A r \in Reqs :
            Stepped(r) /\ (UnknownSender(reqs[r]) \/ UnknownSender(reqs'[r])) =>
                /\ tickets' = tickets
                /\ ticketMessages' = ticketMessages
                /\ \/ unknownMessages' = unknownMessages
                   \/ /\ reqs[r].writes = 0 /\ reqs'[r].writes = 1
                      /\ unknownMessages' =
                            Append(unknownMessages,
                                   [from |-> Trim(reqs[r].From.v),
                                    body |-> Trim(reqs[r].Body.v)])]_vars

\* an unknown sender's request has ended with its entry logged
C3_Witness ==
    \E r \in Reqs :
        /\ UnknownSender(reqs[r])
        /\ reqs[r].pc = "done"
        /\ reqs[r].failed = <<>>
        /\ Len(unknownMessages) = 1

\* the tenant's reference, or null when the tenant has none
RefOrNull(x) == IF x.t = "str" /\ x.v # <<>> THEN x ELSE [t |-> "null", v |-> <<>>]

\* C5: a request whose tenant has no ticket, or only completed or closed ones,
\* creates a ticket (when the create call does not fail), and a request
\* creates at most one; the created ticket has status "open", issueType null,
\* emergencyFlag false, pendingClarification false, pendingClarificationField
\* null, locationDescription null, and the tenant's landlordId and unitId, null
\* when the tenant has none.
C5_NewTicket ==
    /\ [](\A r \in Reqs :
            LET q == reqs[r]
            IN  /\ q.queried /\ q.openAtQuery = {}
                /\ q.pc # "createTicket" /\ q.failed # <<"createTicket">>
                => /\ q.created \in 1..Len(tickets)
                   /\ tickets[q.created].tenantId = Tenants[q.tenant].id)
    /\ [][\A r \in Reqs :
            Stepped(r) /\ tickets' # tickets /\ Len(tickets') # Len(tickets) =>
                /\ reqs[r].created = 0
                /\ reqs'[r].created = Len(tickets) + 1
                /\ tickets' =
                    Append(tickets,
                           [tenantId |-> Tenants[reqs[r].tenant].id,
                            landlordId |-> RefOrNull(Tenants[reqs[r].tenant].landlordId),
                            unitId |-> RefOrNull(Tenants[reqs[r].tenant].unitId),
                            status |-> "open",
                            issueType |-> [t |-> "null", v |-> <<>>],
                            emergencyFlag |-> FALSE,
                            pendingClarification |-> FALSE,
                            pendingClarificationField |-> [t |-> "null", v |-> <<>>],
                            locationDescription |-> [t |-> "null", v |-> <<>>],
                            lastMessage |-> Undef,
                            createdAt |-> Len(tickets) + 1])]_vars

\* a tenant whose only ticket is completed or closed has got a second ticket
C5_Witness ==
    \E r \in Reqs :
        /\ reqs[r].created = 2
        /\ reqs[r].latestAtQuery = 1
        /\ tickets[1].status \in {"completed", "closed"}
        /\ tickets[2].tenantId = tickets[1].tenantId
        /\ tickets[2].landlordId = [t |-> "null", v |-> <<>>]

\* the three conditions of the follow-up short-circuit
FollowupCase(q) ==
    /\ q.ticket.id # 0
    /\ q.ticket.data.issueType.t # "null"
    /\ ~IsEmptyField(q.Body)
    /\ Len(Trim(q.Body.v)) < 40
    /\ KeywordTest(Trim(q.Body.v))

\* the request is past the point where the short-circuit is decided
PastFollowup(q) ==
    q.phase = "out" \/ q.pc \in {"classify", "updateTriage", "getLandlord", "sendSms", "done"}

TriageFields(t) ==
    <<t.issueType, t.emergencyFlag, t.pendingClarification, t.pendingClarificationField>>

\* C6: a request whose resolved ticket has a non-null issueType and whose
\* trimmed body is shorter than 40 characters and matches the keyword set makes
\* no classifier call and no SMS send, leaves every ticket's issueType,
\* emergencyFlag, pendingClarification and pendingClarificationField as they
\* are, logs the "added that detail" text as an outbound system message (when
\* no logging call fails) and returns it; a request for which one of the three
\* conditions is false does not take the short-circuit.
C6_Followup ==
    /\ [](\A r \in Reqs :
            LET q == reqs[r]
            IN  /\ ~FollowupCase(q) => ~q.shortcut
                /\ FollowupCase(q) =>
                        /\ q.classifierCalls = 0 /\ q.sms = <<>> /\ ~q.triaged
                        /\ PastFollowup(q) =>
                                /\ q.shortcut
                                /\ q.replyText = FollowupReply(Tenants[q.tenant], q.ticket)
                                /\ \E i \in 1..Len(q.replyText) :
                                        q.replyText[i] = ", I've added that detail to your "
                        /\ q.pc = "done" =>
                                /\ Len(q.responses) = 1
                                /\ IsTwiml(q.responses[1], q.replyText)
                                /\ q.failed = <<>> =>
                                        ticketMessages[Len(ticketMessages)] =
                                            [ticketId |-> q.ticket.id, senderType |-> "system",
                                             body |-> q.replyText, direction |-> "outbound"])
    /\ [][\A r \in Reqs :
            Stepped(r) /\ FollowupCase(reqs'[r]) =>
                /\ Len(tickets') = Len(tickets)
                /\ \A i \in 1..Len(tickets) :
                        TriageFields(tickets'[i]) = TriageFields(tickets[i])]_vars

\* a short follow-up on a triaged ticket has been answered
C6_Witness ==
    \E r \in Reqs :
        /\ FollowupCase(reqs[r])
        /\ reqs[r].shortcut
        /\ reqs[r].pc = "done"
        /\ reqs[r].failed = <<>>
        /\ tickets[reqs[r].ticket.id].issueType = Lit("plumbing")

\* every secret is a non-empty string
Configured(sec) ==
    \A n \in {"sid", "token", "from"} : sec[n].t = "str" /\ sec[n].v # <<>>

\* emergency triage, a landlord with a phone on file, and the notifier reached
EmergencyCase(q) ==
    /\ q.phase = "out"
    /\ q.triaged
    /\ q.triage.emergency = JTrue
    /\ Tenants[q.tenant].landlordId.t = "str"
    /\ Tenants[q.tenant].landlordId.v[1] \in DOMAIN Landlords
    /\ Landlords[Tenants[q.tenant].landlordId.v[1]].phone.t = "str"
    /\ Configured(secrets)

\* C8: a request in which triage returned emergency = true, whose tenant's
\* landlord has a phone on file, with the SMS credentials and from-number all
\* present, attempts exactly one SMS, to the landlord's phone, whose text
\* contains [EMERGENCY], the ticket id and the triage issue type; no request
\* attempts more than one.
C8_EmergencySms ==
    \A r \in Reqs :
        LET q == reqs[r]
        IN  /\ Len(q.sms) <= 1
            /\ EmergencyCase(q) =>
                    /\ Len(q.sms) = 1
                    /\ q.sms[1].to = Landlords[Tenants[q.tenant].landlordId.v[1]].phone
                    /\ \E i \in 1..Len(q.sms[1].body) : q.sms[1].body[i] = "[EMERGENCY] "
                    /\ \E i \in 1..Len(q.sms[1].body) :
                            q.sms[1].body[i] = "tk" \o ToString(q.ticket.id)
                    /\ \E i \in 1..Len(q.sms[1].body) :
                            <<q.sms[1].body[i]>> = q.triage.issueType.v

\* an emergency has been answered after the landlord's SMS went out
C8_Witness ==
    \E r \in Reqs :
        /\ EmergencyCase(reqs[r])
        /\ reqs[r].pc = "done"
        /\ Len(reqs[r].sms) = 1
        /\ reqs[r].sms[1].delivered

\* the ticket's status is neither "completed" nor "closed"
IsOpen(t) == t.status # "completed" /\ t.status # "closed"

\* C4: a request handled beside no other request, whose tenant has a ticket
\* that is neither completed nor closed when the request looks for one, uses
\* such a ticket and creates none, whatever tickets the tenant has.
C4_ReuseAnyOpen ==
    \A r \in solo :
        LET q == reqs[r]
        IN  q.queried /\ q.openAtQuery # {} =>
                /\ q.created = 0
                /\ q.pc # "createTicket"
                /\ q.ticket.id # 0 => q.ticket.id \in q.openAtQuery

\* the reply is a string that JSON.parse rejects
NotJson(c) == c.t = "text" /\ c.doc # "json"

\* the four fields both variants return
Verdict(val) ==
    <<val.issueType, val.emergency, val.needsClarification, val.clarificationQuestion>>

\* C7 as stated: for content that is not valid JSON, triageMessage returns
\* general / false / false / null without throwing, and the earlier variant
\* returns general / false / needsClarification true / the fixed question.
C7_AsStated ==
    tOut # <<>> /\ NotJson(tIn) =>
        /\ ~tOut[1].threw
        /\ Verdict(tOut[1].val) =
                <<Lit("general"), JFalse, JFalse, [t |-> "null", v |-> <<>>]>>
        /\ ~tOut[2].threw
        /\ Verdict(tOut[2].val) =
                <<Lit("general"), JFalse, JTrue,
                  Lit("Can you send a photo and a short description of what's going on?")>>

\* C7: for content that is not valid JSON, triageMessage returns general /
\* false / false / null without throwing; the earlier variant returns general /
\* false / needsClarification true / the fixed question when the content is a
\* non-empty string, and general / false / false / undefined when it is "".
C7_InvalidJson ==
    tOut # <<>> /\ NotJson(tIn) =>
        /\ ~tOut[1].threw
        /\ Verdict(tOut[1].val) =
                <<Lit("general"), JFalse, JFalse, [t |-> "null", v |-> <<>>]>>
        /\ ~tOut[2].threw
        /\ Verdict(tOut[2].val) =
                IF tIn.pad \/ tIn.doc # "empty"
                THEN <<Lit("general"), JFalse, JTrue,
                       Lit("Can you send a photo and a short description of what's going on?")>>
                ELSE <<Lit("general"), JFalse, JFalse, [t |-> "undef", v |-> <<>>]>>

\* both variants have handled a reply that is text but no JSON
C7_Witness ==
    /\ tOut # <<>>
    /\ tIn.t = "text" /\ tIn.doc = "garbage"
    /\ ~tOut[1].threw /\ ~tOut[2].threw
    /\ tOut[1].val.needsClarification # tOut[2].val.needsClarification

\* C9: two requests of one tenant that both found nothing to reuse each create
\* a ticket of their own, so the tenant has two tickets of status "open" (the
\* witness); and a tenant has two tickets that are neither completed nor closed
\* only after two of the tenant's requests have overlapped.
C9_DuplicateOpen ==
    /\ \A r1, r2 \in Reqs :
            LET p == reqs[r1]
                q == reqs[r2]
            IN  /\ r1 # r2 /\ p.tenant # 0 /\ p.tenant = q.tenant
                /\ p.queried /\ p.openAtQuery = {} /\ p.pc # "createTicket"
                /\ q.queried /\ q.openAtQuery = {} /\ q.pc # "createTicket"
                => /\ p.created # 0 /\ q.created # 0 /\ p.created # q.created
                   /\ external = 0 =>
                        tickets[p.created].status = "open" /\ tickets[q.created].status = "open"
    /\ \A i, j \in 1..Len(tickets) :
            /\ i < j /\ tickets[i].tenantId = tickets[j].tenantId
            /\ IsOpen(tickets[i]) /\ IsOpen(tickets[j])
            => tickets[i].tenantId \in overlap

\* both requests read no reusable ticket, each created one, both are open
C9_Witness ==
    \E r1, r2 \in Reqs :
        /\ r1 # r2
        /\ reqs[r1].openAtQuery = {} /\ reqs[r1].created = 1
        /\ reqs[r2].openAtQuery = {} /\ reqs[r2].created = 2
        /\ tickets[1].tenantId = tickets[2].tenantId
        /\ tickets[1].status = "open" /\ tickets[2].status = "open"
        /\ origin = <<0, 0>>

\* C10: a tenant none of whose requests has overlapped another of its requests
\* has at most one ticket that is neither completed nor closed, and that ticket
\* is the most recently created of the tenant's tickets.
C10_OneOpenTicket ==
    \A tid \in TenantIds \ overlap :
        \A i \in 1..Len(tickets) :
            tickets[i].tenantId = tid /\ IsOpen(tickets[i]) =>
                \A j \in 1..Len(tickets) :
                    j # i /\ tickets[j].tenantId = tid =>
                        /\ ~IsOpen(tickets[j])
                        /\ tickets[j].createdAt < tickets[i].createdAt

\* three requests one after another: the first ticket closed, the second one
\* open and used again by the third request
C10_Witness ==
    /\ overlap = {}
    /\ started = 3
    /\ Len(tickets) = 2
    /\ ~IsOpen(tickets[1]) /\ IsOpen(tickets[2])
    /\ \E r \in Reqs : reqs[r].ticket.id = 2 /\ reqs[r].created = 0

\* a non-empty string
NonEmpty(x) == x.t = "str" /\ x.v # <<>>

\* the first of name, fullName, firstName, displayName that is a non-empty string
NameOf(t) ==
    IF NonEmpty(t.name) THEN t.name.v
    ELSE IF NonEmpty(t.fullName) THEN t.fullName.v
    ELSE IF NonEmpty(t.firstName) THEN t.firstName.v
    ELSE IF NonEmpty(t.displayName) THEN t.displayName.v
    ELSE <<>>

\* the issue type as the replies name it
LabelOf(x) == IF NonEmpty(x) /\ x.v # <<"general">> THEN x.v ELSE <<"issue">>

\* the three replies of a full triage cycle
ClarifyTemplate(q) ==
    <<"Thanks ">> \o NameOf(Tenants[q.tenant]) \o <<", I've logged this as a ">>
    \o LabelOf(q.triage.issueType) \o <<". ">> \o q.triage.clarificationQuestion.v

UrgentTemplate(q) ==
    <<"Thanks ">> \o NameOf(Tenants[q.tenant]) \o <<", I've logged this as an urgent ">>
    \o LabelOf(q.triage.issueType)
    \o <<" and alerted your landlord immediately. If there's any immediate danger to health or safety, please contact emergency services as well.">>

GenericTemplate(q) ==
    <<"Thanks ">> \o NameOf(Tenants[q.tenant]) \o <<", I've logged this as a ">>
    \o LabelOf(q.triage.issueType)
    \o <<". I'll coordinate with your landlord and keep you updated.">>

\* needsClarification is true and there is a non-empty question
AsksQuestion(tr) == tr.needsClarification = JTrue /\ NonEmpty(tr.clarificationQuestion)

\* the request has run the triage cycle up to the composed reply
Composed(q) == q.tenant # 0 /\ q.triaged /\ q.phase = "out"

\* the tenant's landlord reference names a landlord document with a phone
LandlordOnFile(q) ==
    /\ NonEmpty(Tenants[q.tenant].landlordId)
    /\ Tenants[q.tenant].landlordId.v[1] \in DOMAIN Landlords
    /\ NonEmpty(Landlords[Tenants[q.tenant].landlordId.v[1]].phone)

\* C11: a request attempts a landlord SMS only if its tenant has a landlord
\* reference, that landlord exists with a phone, and the account id, auth token
\* and from-number are all present; when one of these is missing the request
\* attempts no SMS and builds none, and its reply is one of the three triage
\* replies, never the error reply.
C11_SmsOnlyWhenReady ==
    \A r \in Reqs :
        LET q == reqs[r]
        IN  /\ q.sms # <<>> \/ q.pc = "sendSms" =>
                    q.tenant # 0 /\ LandlordOnFile(q) /\ Configured(secrets)
            /\ Composed(q) /\ ~(LandlordOnFile(q) /\ Configured(secrets)) =>
                    /\ q.sms = <<>>
                    /\ q.smsBody = <<>>
                    /\ q.replyText \in {ClarifyTemplate(q), UrgentTemplate(q), GenericTemplate(q)}
                    /\ q.replyText # <<"We had an error but received your message.">>
                    /\ q.pc = "done" =>
                            Len(q.responses) = 1 /\ IsTwiml(q.responses[1], q.replyText)

\* a tenant whose landlord is no document has been answered after triage, and
\* no SMS was attempted
C11_Witness ==
    \E r \in Reqs :
        /\ reqs[r].pc = "done"
        /\ Composed(reqs[r])
        /\ Tenants[reqs[r].tenant].landlordId = Lit("L3")
        /\ Configured(secrets)
        /\ reqs[r].sms = <<>>
        /\ reqs[r].failed = <<>>

\* C12: the reply of a full triage cycle is the clarification template when
\* needsClarification is true and the question is non-empty, emergency or not;
\* otherwise the urgent template when emergency is true; otherwise the generic
\* acknowledgment; and it is exactly one of the three.
C12_ReplyPrecedence ==
    \A r \in Reqs :
        LET q == reqs[r]
        IN  Composed(q) =>
                /\ q.replyText =
                        IF AsksQuestion(q.triage) THEN ClarifyTemplate(q)
                        ELSE IF q.triage.emergency = JTrue THEN UrgentTemplate(q)
                        ELSE GenericTemplate(q)
                /\ Cardinality({t \in {"clarify", "urgent", "generic"} :
                        q.replyText = CASE t = "clarify" -> ClarifyTemplate(q)
                                        [] t = "urgent" -> UrgentTemplate(q)
                                        [] OTHER -> GenericTemplate(q)}) = 1
                /\ q.pc = "done" =>
                        Len(q.responses) = 1 /\ IsTwiml(q.responses[1], q.replyText)

\* an emergency that also needs clarification has been answered with the question
C12_Witness ==
    \E r \in Reqs :
        /\ reqs[r].pc = "done"
        /\ Composed(reqs[r])
        /\ reqs[r].triage.emergency = JTrue
        /\ AsksQuestion(reqs[r].triage)
        /\ reqs[r].replyText = ClarifyTemplate(reqs[r])

\* the reply of the follow-up short-circuit
FollowupTemplate(q) ==
    <<"Thanks ">> \o NameOf(Tenants[q.tenant]) \o <<", I've added that detail to your ">>
    \o LabelOf(q.ticket.data.issueType)
    \o <<" ticket. I'll coordinate with your landlord and keep you updated.">>

\* the reply of the triage cycle, by the precedence of its three templates
TriageTemplate(q) ==
    IF AsksQuestion(q.triage) THEN ClarifyTemplate(q)
    ELSE IF q.triage.emergency = JTrue THEN UrgentTemplate(q)
    ELSE GenericTemplate(q)

\* the calls whose failure some inner catch handles, and those it reaches the
\* outer catch from
LogFailures == {"msgAddin", "msgUpdin", "msgAddout", "msgUpdout"}
UncaughtFailures ==
    {"findTenant", "addUnknown", "queryTicket", "createTicket", "getTicket",
     "updateTriage", "getLandlord"}

Failed(q, names) == \E i \in 1..Len(q.failed) : q.failed[i] \in names
OnlyFailed(q, names) == q.failed # <<>> /\ \A i \in 1..Len(q.failed) : q.failed[i] \in names

\* the last ticketMessages record is this request's outbound system message
OutboundLogged(q) ==
    /\ ticketMessages # <<>>
    /\ ticketMessages[Len(ticketMessages)] =
            [ticketId |-> q.ticket.id, senderType |-> "system",
             body |-> q.replyText, direction |-> "outbound"]

\* C13: a request in which a call of addTicketMessage failed, for the inbound
\* or the outbound message, at the ticketMessages add or at the ticket update,
\* goes on through the remaining steps and answers with the reply its ticket,
\* body and triage determine (the follow-up text or the triage template), never
\* with the error reply.
C13_LoggingBestEffort ==
    \A r \in Reqs :
        LET q == reqs[r]
        IN  OnlyFailed(q, LogFailures) /\ q.pc = "done" =>
                /\ Len(q.responses) = 1
                /\ q.responses[1].body # <<"<Response><Message>", "We had an error but received your message.", "</Message></Response>">>
                /\ IsTwiml(q.responses[1],
                           IF FollowupCase(q) THEN FollowupTemplate(q) ELSE TriageTemplate(q))
                /\ FollowupCase(q) => q.shortcut /\ q.classifierCalls = 0
                /\ ~FollowupCase(q) => q.classifierCalls = 1 /\ q.triaged
                /\ OnlyFailed(q, {"msgAddin", "msgUpdin"}) => OutboundLogged(q)

\* the inbound message's add failed, and the request was triaged and answered
C13_Witness ==
    \E r \in Reqs :
        /\ reqs[r].pc = "done"
        /\ reqs[r].failed = <<"msgAddin">>
        /\ reqs[r].triaged
        /\ reqs[r].replyText = UrgentTemplate(reqs[r])
        /\ Len(reqs[r].sms) = 1

\* C14: a request whose classifier call failed carries the result general /
\* false / false / null, updates its ticket with these values, runs the
\* landlord notifier (which sends when landlord and secrets are there) and
\* answers with the generic acknowledgment, not the error reply.
C14_ClassifierFailure ==
    \A r \in Reqs :
        LET q == reqs[r]
        IN  Failed(q, {"classify"}) /\ ~Failed(q, UncaughtFailures) =>
                /\ q.triage = [issueType |-> Lit("general"), emergency |-> JFalse,
                               needsClarification |-> JFalse,
                               clarificationQuestion |-> [t |-> "null", v |-> <<>>]]
                /\ q.sms # <<>> =>
                        \A i \in 1..Len(q.sms[1].body) : q.sms[1].body[i] # "[EMERGENCY] "
                /\ q.pc = "done" =>
                        /\ q.triaged
                        /\ TriageFields(tickets[q.ticket.id]) =
                                <<Lit("general"), FALSE, FALSE, [t |-> "null", v |-> <<>>]>>
                        /\ LandlordOnFile(q) /\ Configured(secrets) => Len(q.sms) = 1
                        /\ q.replyText = GenericTemplate(q)
                        /\ Len(q.responses) = 1
                        /\ IsTwiml(q.responses[1], GenericTemplate(q))

\* the classifier call failed, the landlord got the SMS and the tenant the
\* generic acknowledgment
C14_Witness ==
    \E r \in Reqs :
        /\ reqs[r].pc = "done"
        /\ reqs[r].failed = <<"classify">>
        /\ Len(reqs[r].sms) = 1
        /\ tickets[reqs[r].ticket.id].issueType = Lit("general")

\* C15 as stated: whenever the notification step fails, at the landlord lookup
\* or at the send, the tenant receives the triage reply and the outbound
\* message is logged.
C15_AsStated ==
    \A r \in Reqs :
        LET q == reqs[r]
        IN  OnlyFailed(q, {"getLandlord", "sendSms"}) /\ q.pc = "done" =>
                /\ Len(q.responses) = 1
                /\ IsTwiml(q.responses[1], TriageTemplate(q))
                /\ OutboundLogged(q)

\* C15: whenever the landlord SMS send fails, the tenant receives the triage
\* reply, the outbound system message is logged, and the error reply is not
\* sent; no second send is attempted.
C15_SendFailure ==
    \A r \in Reqs :
        LET q == reqs[r]
        IN  OnlyFailed(q, {"sendSms"}) =>
                /\ Len(q.sms) = 1 /\ ~q.sms[1].delivered
                /\ q.replyText = TriageTemplate(q)
                /\ q.pc = "done" =>
                        /\ Len(q.responses) = 1
                        /\ IsTwiml(q.responses[1], TriageTemplate(q))
                        /\ q.responses[1].body # <<"<Response><Message>", "We had an error but received your message.", "</Message></Response>">>
                        /\ OutboundLogged(q)

\* the send failed and the tenant was answered
C15_Witness ==
    \E r \in Reqs :
        /\ reqs[r].pc = "done"
        /\ reqs[r].failed = <<"sendSms">>
        /\ ~reqs[r].sms[1].delivered
        /\ OutboundLogged(reqs[r])

\* the request's last failure reached the outer catch
Uncaught(q) == q.failed # <<>> /\ q.failed[Len(q.failed)] \in UncaughtFailures

\* C16: when the tenant lookup, the unknown-message write, the ticket lookup or
\* creation, the triage ticket update or the landlord lookup fails, the request
\* answers with "We had an error but received your message." and status 200,
\* and from the failure on it writes nothing to the store, makes no classifier
\* call and sends no SMS.
C16_OuterCatch ==
    /\ [](\A r \in Reqs :
            LET q == reqs[r]
            IN  Uncaught(q) =>
                    /\ q.pc = "done"
                    /\ Len(q.responses) = 1
                    /\ IsTwiml(q.responses[1], <<"We had an error but received your message.">>))
    /\ [][\A r \in Reqs :
            /\ Stepped(r) /\ Uncaught(reqs'[r]) =>
                    /\ ~Uncaught(reqs[r])
                    /\ <<tickets, ticketMessages, unknownMessages>>' =
                            <<tickets, ticketMessages, unknownMessages>>
                    /\ reqs'[r].sms = reqs[r].sms
                    /\ reqs'[r].classifierCalls = reqs[r].classifierCalls
            /\ Stepped(r) /\ Uncaught(reqs[r]) =>
                    /\ reqs'[r] = Idle
                    /\ <<tickets, ticketMessages, unknownMessages>>' =
                            <<tickets, ticketMessages, unknownMessages>>]_vars

\* the triage ticket update failed after the classifier call: the error reply,
\* and no SMS
C16_Witness ==
    \E r \in Reqs :
        /\ reqs[r].pc = "done"
        /\ reqs[r].failed = <<"updateTriage">>
        /\ reqs[r].classifierCalls = 1
        /\ reqs[r].sms = <<>>
        /\ Tenants[reqs[r].tenant].landlordId = Lit("L1")

\* the reply is text that parses to a JSON object
IsJsonObject(c) == c.t = "text" /\ c.doc = "json" /\ c.val.t = "obj"

\* C17: for a reply that parses to a JSON object, triageMessage's issueType is
\* the object's when that is plumbing, hvac, appliance or general and "general"
\* otherwise; emergency and needsClarification are the object's when these are
\* booleans and false otherwise; riskLevel is the object's when that is low,
\* medium or high and "low" otherwise; clarificationQuestion is the object's
\* when that is a string and null otherwise.
C17_SafeDefaults ==
    tOut # <<>> /\ IsJsonObject(tIn) =>
        LET f == tIn.val.f
            res == tOut[1].val
        IN  /\ ~tOut[1].threw
            /\ res.issueType =
                    IF f.issueType \in {Lit("plumbing"), Lit("hvac"), Lit("appliance"), Lit("general")}
                    THEN f.issueType ELSE Lit("general")
            /\ res.emergency = IF f.emergency.t = "bool" THEN f.emergency ELSE JFalse
            /\ res.riskLevel =
                    IF f.riskLevel \in {Lit("low"), Lit("medium"), Lit("high")}
                    THEN f.riskLevel ELSE Lit("low")
            /\ res.needsClarification =
                    IF f.needsClarification.t = "bool" THEN f.needsClarification ELSE JFalse
            /\ res.clarificationQuestion =
                    IF f.clarificationQuestion.t = "str" THEN f.clarificationQuestion
                    ELSE [t |-> "null", v |-> <<>>]

\* C18: whatever the content of the reply, JSON that is no object included,
\* triageMessage returns, and for content that is no JSON object it returns
\* general / false / false / null.
C18_NeverThrows ==
    tOut # <<>> =>
        /\ ~tOut[1].threw
        /\ ~IsJsonObject(tIn) =>
                Verdict(tOut[1].val) =
                    <<Lit("general"), JFalse, JFalse, [t |-> "null", v |-> <<>>]>>

\* C19: in every state every ticket has pendingClarification true exactly
\* when its pendingClarificationField is "location" and false exactly when
\* that is null; and once a request has run its triage cycle and composed its
\* reply, its ticket's pendingClarification is true exactly when that reply is
\* the clarification template.
C19_PendingClarification ==
    /\ \A i \in 1..Len(tickets) :
            /\ tickets[i].pendingClarification <=>
                    tickets[i].pendingClarificationField = Lit("location")
            /\ ~tickets[i].pendingClarification <=>
                    tickets[i].pendingClarificationField = [t |-> "null", v |-> <<>>]
    /\ \A r \in Reqs :
            LET q == reqs[r]
            IN  Composed(q) =>
                    (tickets[q.ticket.id].pendingClarification <=>
                        q.replyText = ClarifyTemplate(q))

\* C20: a request whose response is the urgent reply, which says the landlord
\* was alerted, has attempted a landlord SMS.
C20_AlertedMeansSent ==
    \A r \in Reqs :
        LET q == reqs[r]
        IN  /\ Composed(q) /\ q.pc = "done"
            /\ Len(q.responses) = 1
            /\ IsTwiml(q.responses[1], UrgentTemplate(q))
            => q.sms # <<>>

\* the places in ticketMessages of the records of ticket i
RecordsOf(i) == {k \in 1..Len(ticketMessages) : ticketMessages[k].ticketId = i}

\* some request is inside addTicketMessage for ticket i
Logging(i) ==
    \E r \in Reqs : reqs[r].ticket.id = i /\ reqs[r].pc \in {"msgAdd", "msgUpd"}

\* C21: whenever no addTicketMessage call is in progress for a ticket that has
\* records, the ticket's lastMessage is the body of the record of that ticket
\* appended last, however the requests that log to the ticket interleave.
C21_LastMessage ==
    \A i \in 1..Len(tickets) :
        ~Logging(i) /\ RecordsOf(i) # {} =>
            LET last == CHOOSE k \in RecordsOf(i) : \A j \in RecordsOf(i) : j <= k
            IN  tickets[i].lastMessage = [t |-> "str", v |-> ticketMessages[last].body]

FixedFields(t) == <<t.status, t.tenantId, t.landlordId, t.unitId, t.locationDescription>>

\* C23: no step of a request changes the status, tenantId, landlordId, unitId
\* or locationDescription of a ticket that exists, and locationDescription is
\* null on every ticket, also after a tenant's answer to a location question.
C23_FixedFields ==
    /\ [](\A i \in 1..Len(tickets) :
            tickets[i].locationDescription = [t |-> "null", v |-> <<>>])
    /\ [][(\E r \in Reqs : Stepped(r)) =>
            \A i \in 1..Len(tickets) :
                /\ i <= Len(tickets')
                /\ FixedFields(tickets'[i]) = FixedFields(tickets[i])]_vars

\* the tenant has answered the location question: the ticket still waits for
\* the location and has none
C23_Witness ==
    \E r \in Reqs :
        /\ reqs[r].pc = "done"
        /\ reqs[r].shortcut
        /\ tickets[reqs[r].ticket.id].pendingClarification
        /\ tickets[reqs[r].ticket.id].pendingClarificationField = Lit("location")
        /\ tickets[reqs[r].ticket.id].locationDescription = [t |-> "null", v |-> <<>>]

\* C24: a request that creates a ticket never takes the follow-up
\* short-circuit: it goes through the classifier and the ticket update; and a
\* request takes the short-circuit only on a ticket whose issueType a triage
\* update has set.
C24_NoShortcutOnNewTicket ==
    \A r \in Reqs :
        LET q == reqs[r]
        IN  /\ q.shortcut => q.created = 0
            /\ q.created # 0 /\ q.pc = "done" /\ q.failed = <<>> =>
                    q.classifierCalls = 1 /\ q.triaged
            /\ q.shortcut => tickets[q.ticket.id].issueType # [t |-> "null", v |-> <<>>]

=============================================================================
